---- MODULE Spec2Model ----
(***************************************************************************)
(* Model of sample-extension/sample.c: a glirc extension whose three hooks *)
(* (start, stop, process_message) log the command of every message to      *)
(* sample-output.txt.  The plugin is modelled line by line; the host that  *)
(* drives the hooks and the C library (fopen, strndup, fprintf, fflush,    *)
(* fclose, free) are modelled by what they do to the file, the stream and  *)
(* the heap.  Writes to an open stream are taken to succeed; fopen and     *)
(* strndup may fail.                                                       *)
(***************************************************************************)
EXTENDS Integers, Sequences, FiniteSets, TLC

\* ---- bounds of the model ----
MaxLen == 2          \* longest host buffer holding a command
MaxMsgs == 2         \* process_message calls per start/stop lifecycle
MaxLifecycles == 2   \* start/stop lifecycles the host runs

\* ---- bytes ----
NUL == 0
NL == 10
\* the bytes a host buffer is made of: NUL and the letter A
Chars == {NUL, 65}
\* what libc prints for a null %s argument: "(null)"
NullText == <<40, 110, 117, 108, 108, 41>>

Null == 0
Handles == 1..MaxLifecycles

VARIABLES
    pc,         \* the line the plugin is at, or the host's position between hook calls
    disk,       \* sample-output.txt as seen outside the process
    st,         \* FILE streams: "unused", "open" or "closed"
    buf,        \* each stream's unflushed buffer
    hostS,      \* the extension state the host keeps (what start returned)
    argS,       \* parameter S of the running hook
    msg,        \* the host's message the running process_message points at
    file,       \* local `file` of the running hook
    cmd,        \* local `cmd` of process_message
    live,       \* heap blocks the plugin owns
    lifecycle,  \* history: number of start calls so far
    nmsgs,      \* history: process_message calls returned in this lifecycle
    msgIn,      \* history: the message as the host passed it
    hadLines,   \* history: the file held bytes when the running start was called
    expected,   \* history: command names of this lifecycle's messages, one per line
    written,    \* history: bytes fprintf accepted in this lifecycle
    appended,   \* history: bytes fprintf accepted in the running call
    lastCall,   \* history: the previous process_message call of this lifecycle
    fcloses,    \* history: fclose calls of this lifecycle
    allocs,     \* history: heap blocks obtained by the running call
    frees       \* history: heap blocks released by the running call

vars == <<pc, disk, st, buf, hostS, argS, msg, file, cmd, live, lifecycle, nmsgs,
          msgIn, hadLines, expected, written, appended, lastCall, fcloses,
          allocs, frees>>

\* ---- values ----
NoFile == [exists |-> FALSE, bytes |-> <<>>]
NullPtr == [null |-> TRUE, s |-> <<>>]
NoMsg == [str |-> <<>>, len |-> 0]
NoCall == [valid |-> FALSE, S |-> Null, msg |-> NoMsg, bytes |-> <<>>]

SeqsUpTo(n) == UNION {[1..k -> Chars] : k \in 0..n}

\* struct glirc_string command: a pointer into a host buffer and a length
Messages == {m \in [str : SeqsUpTo(MaxLen), len : 0..MaxLen] : m.len <= Len(m.str)}

\* the command name of a message: the command.len bytes at command.str
CommandName(m) == SubSeq(m.str, 1, m.len)

\* ---- the C library, by what it does ----

\* strnlen: the number of bytes before the first NUL among the first n of s
RECURSIVE Strnlen(_, _)
Strnlen(s, n) ==
    IF n = 0 \/ s = <<>> \/ Head(s) = NUL THEN 0 ELSE 1 + Strnlen(Tail(s), n - 1)

\* strndup(msg->command.str, msg->command.len): a fresh block holding the
\* first strnlen bytes and a terminating NUL
Strndup(s, n) == [null |-> FALSE, s |-> Append(SubSeq(s, 1, Strnlen(s, n)), NUL)]

\* fprintf's "%s\n" of a terminated string: its bytes up to the terminator, then a newline
Format(c) == Append(SubSeq(c.s, 1, Strnlen(c.s, Len(c.s))), NL)

\* a fopen that opens for appending: the file keeps what it held
FopenA(d) == [exists |-> TRUE, bytes |-> d.bytes]

\* fopen(..., "w"): the file is created or truncated to length zero
FopenW(d) == [exists |-> TRUE, bytes |-> <<>>]

\* fflush of an open stream: its buffer reaches the file
Flushed(d, b) == [exists |-> d.exists, bytes |-> d.bytes \o b]

IsOpen(f) == f # Null /\ st[f] = "open"

\* ---- initial state: the extension is not loaded; the file may be left from an earlier run ----
Init ==
    /\ pc = "unloaded"
    /\ disk \in {NoFile, FopenW(NoFile), [exists |-> TRUE, bytes |-> <<65, NL>>]}
    /\ st = [h \in Handles |-> "unused"]
    /\ buf = [h \in Handles |-> <<>>]
    /\ hostS = Null /\ argS = Null /\ file = Null
    /\ msg = NoMsg /\ msgIn = NoMsg
    /\ cmd = NullPtr
    /\ live = 0 /\ lifecycle = 0 /\ nmsgs = 0 /\ fcloses = 0 /\ allocs = 0 /\ frees = 0
    /\ hadLines = FALSE
    /\ expected = <<>> /\ written = <<>> /\ appended = <<>>
    /\ lastCall = NoCall

\* ---- the host ----

\* the host loads the extension and calls extension.start
HostStart ==
    /\ pc = "unloaded"
    /\ lifecycle < MaxLifecycles
    /\ pc' = "start7"
    /\ lifecycle' = lifecycle + 1
    /\ hadLines' = (disk.exists /\ disk.bytes # <<>>)
    /\ nmsgs' = 0 /\ fcloses' = 0 /\ allocs' = 0 /\ frees' = 0
    /\ expected' = <<>> /\ written' = <<>> /\ appended' = <<>>
    /\ lastCall' = NoCall
    /\ UNCHANGED <<disk, st, buf, hostS, argS, msg, msgIn, file, cmd, live>>

\* the host calls extension.process_message with the state it keeps and a message
HostMessage ==
    /\ pc = "idle"
    /\ nmsgs < MaxMsgs
    /\ \E m \in Messages : msg' = m /\ msgIn' = m
    /\ argS' = hostS
    /\ appended' = <<>> /\ allocs' = 0 /\ frees' = 0
    /\ pc' = "pm17"
    /\ UNCHANGED <<disk, st, buf, hostS, file, cmd, live, lifecycle, nmsgs, hadLines,
                   expected, written, lastCall, fcloses>>

\* the host unloads the extension and calls extension.stop with the state it keeps
HostStop ==
    /\ pc = "idle"
    /\ argS' = hostS
    /\ pc' = "stop12"
    /\ UNCHANGED <<disk, st, buf, hostS, msg, msgIn, file, cmd, live, lifecycle, nmsgs,
                   hadLines, expected, written, appended, lastCall, fcloses, allocs, frees>>

\* ---- start ----

\* line 7: FILE *file = fopen("sample-output.txt", "w");
start7 ==
    /\ pc = "start7"
    /\ \/ /\ file' = lifecycle
          /\ st' = [st EXCEPT ![lifecycle] = "open"]
          /\ buf' = [buf EXCEPT ![lifecycle] = <<>>]
          /\ disk' = FopenW(disk)
       \/ /\ file' = Null
          /\ UNCHANGED <<st, buf, disk>>
    /\ pc' = "start8"
    /\ UNCHANGED <<hostS, argS, msg, msgIn, cmd, live, lifecycle, nmsgs, hadLines,
                   expected, written, appended, lastCall, fcloses, allocs, frees>>

\* line 8: return file;  the host keeps the result as the extension state
start8 ==
    /\ pc = "start8"
    /\ hostS' = file
    /\ file' = Null
    /\ hadLines' = FALSE
    /\ pc' = "idle"
    /\ UNCHANGED <<disk, st, buf, argS, msg, msgIn, cmd, live, lifecycle, nmsgs,
                   expected, written, appended, lastCall, fcloses, allocs, frees>>

\* ---- process_message ----

\* line 17: FILE *file = S;
pm17 ==
    /\ pc = "pm17"
    /\ file' = argS
    /\ pc' = "pm18"
    /\ UNCHANGED <<disk, st, buf, hostS, argS, msg, msgIn, cmd, live, lifecycle, nmsgs,
                   hadLines, expected, written, appended, lastCall, fcloses, allocs, frees>>

\* line 18: char *cmd = strndup(msg->command.str, msg->command.len);
\* the allocation may fail, and the result is not tested
pm18 ==
    /\ pc = "pm18"
    /\ \/ cmd' = Strndup(msg.str, msg.len) /\ live' = live + 1 /\ allocs' = allocs + 1
       \/ cmd' = NullPtr /\ UNCHANGED <<live, allocs>>
    /\ pc' = "pm19"
    /\ UNCHANGED <<disk, st, buf, hostS, argS, msg, msgIn, file, lifecycle, nmsgs,
                   hadLines, expected, written, appended, lastCall, fcloses, frees>>

\* the process dies inside a library call whose behaviour is undefined: its
\* streams, unflushed buffers and heap are gone, the file stays as it is
Crash ==
    /\ pc' = "crashed"
    /\ st' = [h \in Handles |-> "unused"]
    /\ buf' = [h \in Handles |-> <<>>]
    /\ hostS' = Null /\ argS' = Null /\ file' = Null
    /\ msg' = NoMsg /\ msgIn' = NoMsg
    /\ cmd' = NullPtr
    /\ live' = 0
    /\ UNCHANGED <<disk, lifecycle, nmsgs, hadLines, expected, written, appended,
                   lastCall, fcloses, allocs, frees>>

\* fprintf accepts the bytes b into the buffer of stream `file`
Accept(b) ==
    /\ buf' = [buf EXCEPT ![file] = @ \o b]
    /\ written' = written \o b
    /\ appended' = appended \o b
    /\ pc' = "pm20"
    /\ UNCHANGED <<disk, st, hostS, argS, msg, msgIn, file, cmd, live, lifecycle, nmsgs,
                   hadLines, expected, lastCall, fcloses, allocs, frees>>

\* line 19: fprintf(file, "%s\n", cmd);
\* a null or closed stream is dereferenced and the process dies; a null cmd is
\* undefined for %s: the process dies, or libc prints "(null)"
pm19 ==
    /\ pc = "pm19"
    /\ IF ~IsOpen(file)
       THEN Crash
       ELSE IF cmd.null
            THEN Crash \/ Accept(Append(NullText, NL))
            ELSE Accept(Format(cmd))

\* a process_message that does not flush: line 20 left out
pm20_noflush ==
    /\ pc = "pm20"
    /\ pc' = "pm21"
    /\ UNCHANGED <<disk, st, buf, hostS, argS, msg, file, cmd, live, lifecycle, nmsgs,
                   msgIn, hadLines, expected, written, appended, lastCall,
                   fcloses, allocs, frees>>

\* line 20: fflush(file);
\* fflush(NULL) flushes every open output stream; a closed stream is dereferenced
pm20 ==
    /\ pc = "pm20"
    /\ IF file # Null /\ st[file] # "open"
       THEN Crash
       ELSE LET open == IF file = Null THEN {h \in Handles : st[h] = "open"} ELSE {file}
            IN  /\ disk' = IF open = {} THEN disk
                           ELSE Flushed(disk, buf[CHOOSE h \in open : TRUE])
                /\ buf' = [h \in Handles |-> IF h \in open THEN <<>> ELSE buf[h]]
                /\ pc' = "pm21"
                /\ UNCHANGED <<st, hostS, argS, msg, msgIn, file, cmd, live, lifecycle,
                               nmsgs, hadLines, expected, written, appended, lastCall,
                               fcloses, allocs, frees>>

\* a process_message that does not release the copy: line 21 left out
pm21_nofree ==
    /\ pc = "pm21"
    /\ cmd' = NullPtr
    /\ file' = Null
    /\ nmsgs' = nmsgs + 1
    /\ expected' = expected \o Append(CommandName(msgIn), NL)
    /\ lastCall' = [valid |-> TRUE, S |-> argS, msg |-> msgIn, bytes |-> appended]
    /\ msg' = NoMsg /\ msgIn' = NoMsg /\ argS' = Null
    /\ pc' = "idle"
    /\ UNCHANGED <<disk, st, buf, hostS, live, lifecycle, hadLines, written, appended,
                   fcloses, allocs, frees>>

\* lines 21-22: free(cmd); and the return to the host.  free(NULL) does nothing
pm21 ==
    /\ pc = "pm21"
    /\ live' = IF cmd.null THEN live ELSE live - 1
    /\ frees' = IF cmd.null THEN frees ELSE frees + 1
    /\ cmd' = NullPtr
    /\ file' = Null
    /\ nmsgs' = nmsgs + 1
    /\ expected' = expected \o Append(CommandName(msgIn), NL)
    /\ lastCall' = [valid |-> TRUE, S |-> argS, msg |-> msgIn, bytes |-> appended]
    /\ msg' = NoMsg /\ msgIn' = NoMsg /\ argS' = Null
    /\ pc' = "idle"
    /\ UNCHANGED <<disk, st, buf, hostS, lifecycle, hadLines, written, appended, fcloses,
                   allocs>>

\* ---- stop ----

\* a stop that tests its state and returns early on a null one
stop12_checked ==
    /\ pc = "stop12"
    /\ IF argS = Null
       THEN /\ pc' = "unloaded"
            /\ hostS' = Null /\ file' = Null
       ELSE /\ pc' = "stop13"
            /\ file' = argS
            /\ hostS' = hostS
    /\ UNCHANGED <<disk, st, buf, argS, msg, msgIn, cmd, live, lifecycle, nmsgs,
                   hadLines, expected, written, appended, lastCall, fcloses, allocs, frees>>

\* line 12: FILE *file = S;
stop12 ==
    /\ pc = "stop12"
    /\ file' = argS
    /\ pc' = "stop13"
    /\ UNCHANGED <<disk, st, buf, hostS, argS, msg, msgIn, cmd, live, lifecycle, nmsgs,
                   hadLines, expected, written, appended, lastCall, fcloses, allocs, frees>>

\* lines 13-14: fclose(file); and the return to the host, which drops the state.
\* fclose flushes and closes an open stream; a null or closed one is dereferenced
stop13 ==
    /\ pc = "stop13"
    /\ IF IsOpen(file)
       THEN /\ disk' = Flushed(disk, buf[file])
            /\ buf' = [buf EXCEPT ![file] = <<>>]
            /\ st' = [st EXCEPT ![file] = "closed"]
            /\ fcloses' = fcloses + 1
            /\ hostS' = Null /\ file' = Null /\ argS' = Null
            /\ pc' = "unloaded"
            /\ UNCHANGED <<msg, msgIn, cmd, live, lifecycle, nmsgs, hadLines,
                           expected, written, appended, lastCall, allocs, frees>>
       ELSE Crash

Next ==
    \/ HostStart
    \/ HostMessage
    \/ HostStop
    \/ start7
    \/ start8
    \/ pm17
    \/ pm18
    \/ pm19
    \/ pm20
    \/ pm21
    \/ stop12
    \/ stop13

Spec == Init /\ [][Next]_vars

\* ---- helpers of the properties ----

InProcessMessage == pc \in {"pm17", "pm18", "pm19", "pm20", "pm21"}
BetweenHooks == pc \in {"idle", "unloaded"}

RECURSIVE CountNL(_)
CountNL(s) == IF s = <<>> THEN 0 ELSE (IF Head(s) = NL THEN 1 ELSE 0) + CountNL(Tail(s))

IsSuffix(a, b) == Len(a) <= Len(b) /\ SubSeq(b, Len(b) - Len(a) + 1, Len(b)) = a

\* ---- C1 ----
\* C1: in a lifecycle whose start succeeded, between hook calls the file holds
\* exactly the command names of the messages processed so far, in call order,
\* each followed by one newline, and nothing else.
C1_LogIsCommandNames ==
    (pc = "idle" /\ IsOpen(hostS)) => (disk.exists /\ disk.bytes = expected)

\* ---- C2 ----
\* C2: the state start returns is the open handle, stop and process_message
\* work on exactly the handle passed as S, the plugin owns nothing between hook
\* calls, and a process_message call with the same state and message as the
\* previous one appends the same bytes.
C2_SameCallSameBytes ==
    /\ (pc = "idle" /\ hostS # Null) => st[hostS] = "open"
    /\ pc \in {"pm18", "pm19", "pm20", "pm21", "stop13"} => file = argS
    /\ BetweenHooks => live = 0
    /\ (pc = "pm21" /\ lastCall.valid /\ lastCall.S = argS /\ lastCall.msg = msgIn)
          => appended = lastCall.bytes

\* ---- C3 ----
\* C3: a failed fopen changes nothing and its null result becomes the extension
\* state; process_message and stop go on to use whatever state they are passed,
\* null included, without a test.
C3_NoFailureHandling ==
    [][ /\ (pc = "start7" /\ file' = Null) => UNCHANGED <<disk, st, buf, live>>
        /\ pc = "start8" => (hostS' = file /\ pc' = "idle")
        /\ pc = "pm17" => (file' = argS /\ pc' = "pm18")
        /\ pc = "pm18" => pc' = "pm19"
        /\ pc = "stop12" => (file' = argS /\ pc' = "stop13") ]_vars

\* process_message is about to print to the null state a failed start returned
C3_Witness == pc = "pm19" /\ file = Null /\ hostS = Null /\ lifecycle >= 1

\* ---- C4 ----
\* C4: every fprintf, fflush and fclose is applied to a non-null open handle,
\* and once stop has returned fclose has been applied exactly once.
C4_HandleAlwaysValid ==
    /\ pc \in {"pm19", "pm20", "stop13"} => IsOpen(file)
    /\ (pc = "unloaded" /\ lifecycle >= 1) => fcloses = 1

\* ---- C5 ----
\* C5: whenever process_message has returned on an open handle, the handle's
\* buffer is empty and the file already holds every byte printed in this
\* lifecycle: one line per message processed, the latest message's line last.
C5_FlushedOnReturn ==
    (pc = "idle" /\ IsOpen(hostS)) =>
        /\ buf[hostS] = <<>>
        /\ disk.exists
        /\ disk.bytes = written
        /\ CountNL(disk.bytes) = nmsgs
        /\ lastCall.valid => (lastCall.bytes # <<>> /\ IsSuffix(lastCall.bytes, disk.bytes))

\* two messages have been processed and both lines are in the file before stop
C5_Witness ==
    pc = "idle" /\ IsOpen(hostS) /\ nmsgs = 2 /\ Len(disk.bytes) > 2

\* ---- C6 ----
\* C6: the line printed for a message is the first command.len bytes of
\* command.str when none is NUL, ends before the first NUL otherwise, holds no
\* byte at index command.len or beyond, and is empty for a length of 0.
C6_LineIsCopy ==
    (pc = "pm20" /\ IsOpen(file)) =>
        LET s == msgIn.str
            n == msgIn.len
            nuls == {i \in 1..n : s[i] = NUL}
            first == CHOOSE i \in nuls : \A j \in nuls : i <= j
            line == SubSeq(appended, 1, Len(appended) - 1)
        IN  /\ appended # <<>> /\ appended[Len(appended)] = NL
            /\ nuls = {} => line = SubSeq(s, 1, n)
            /\ nuls # {} => line = SubSeq(s, 1, first - 1)
            /\ Len(line) <= n
            /\ n = 0 => line = <<>>

\* ---- C7 ----
\* C7: right after a successful fopen the file exists and is empty whatever it
\* held, and while the handle is open the file and its buffer hold only bytes
\* printed in the running lifecycle.
C7_TruncatedOnStart ==
    /\ (pc = "start8" /\ file # Null) => (disk = [exists |-> TRUE, bytes |-> <<>>]
                                          /\ buf[file] = <<>>)
    /\ IsOpen(hostS) => (disk.exists /\ disk.bytes \o buf[hostS] = written)

\* a second lifecycle has just opened the file an earlier one left lines in
C7_Witness == pc = "start8" /\ file # Null /\ hadLines /\ lifecycle = 2

\* ---- C8 ----
\* C8: process_message never changes the host's message, the copy it obtains
\* is released exactly once before it returns, and between hook calls the
\* plugin owns no heap block.
C8_NoLeakNoTouch ==
    /\ InProcessMessage => msg = msgIn
    /\ pc \in {"pm19", "pm20", "pm21"} => (live = allocs /\ frees = 0)
    /\ BetweenHooks => (live = 0 /\ frees = allocs)

\* two messages have been copied and both copies released
C8_Witness == pc = "idle" /\ nmsgs = 2 /\ allocs = 1 /\ frees = 1 /\ live = 0

\* ---- C9 ----
\* C9: the copy process_message passes to fprintf for %s is never null.
C9_CmdNeverNull == pc = "pm19" => ~cmd.null

====
